---- MODULE Spec2Model ----
(***************************************************************************)
(* A model of the core of the echo web framework (src/echo.go): the global *)
(* middleware list and the memoized middleware chain of the default router *)
(* and of every host, the host registry, the router build, the context     *)
(* pool and the dispatch loop ServeHTTP, run by concurrent workers.        *)
(*                                                                         *)
(* Strings that the code inspects character by character (host names,      *)
(* path patterns) are sequences of one-character strings.                  *)
(*                                                                         *)
(* findRouter reads a field e.routers that the Echo struct of src/echo.go   *)
(* does not declare.  The only routers the source creates besides the      *)
(* default one are the Router fields of the Host values that Host(name)    *)
(* stores in e.hosts, so e.routers is read as the map from a name to the   *)
(* Router that Host(name) created (the definition routers).  Host returns  *)
(* an undeclared g; it is read as h.group.                                 *)
(***************************************************************************)
EXTENDS Integers, Sequences, FiniteSets, TLC

\* ---------------------------------------------------------------- bounds
NumProcs == 2
MaxMw == 3
MaxArgs == 2
MaxCtx == 2
MaxOps == 3
MaxDispatch == 2
MaxRoutes == 3
MaxFindRegs == 2
MaxFindName == 2
MaxFindHost == 3

Procs == 1..NumProcs
Mws == {"m1", "m2"}

\* Host names given to Host(name), and the hosts of the requests.
DotA == <<".", "a">>
BDotA == <<"b", ".", "a">>
HostNames == {DotA, BDotA}
ReqHosts == {BDotA, <<"a">>}

Range(s) == {s[i] : i \in 1..Len(s)}

SeqsUpTo(S, n) == UNION {[1..k -> S] : k \in 0..n}

MwArgs == SeqsUpTo(Mws, MaxArgs) \ {<<>>}

\* ------------------------------------------------------------ nil values
NoRouter == [id |-> 0, tree |-> <<>>]
NilHead == [mws |-> <<>>, router |-> 0]
NoTag == [op |-> "none", mw |-> <<>>, prev |-> <<>>, cached |-> {}]
NoReq == [id |-> 0, host |-> <<>>]
NoFound == [ref |-> <<>>, id |-> 0, exist |-> FALSE]
NoCall == [name |-> "", params |-> <<>>]
NoTable == [role |-> <<>>, tree |-> <<>>, nil |-> FALSE]
NoErr == [kind |-> "nil", code |-> 0, message |-> "", text |-> ""]
NoOut == [err |-> NoErr, committed |-> FALSE, method |-> ""]
NoRes == [out |-> NoOut, committed |-> FALSE, writes |-> <<>>, logs |-> <<>>,
          calls |-> <<>>]
NoVal == [obj |-> NoErr, text |-> <<>>]
NoSess == [pc |-> "idle", cloned |-> FALSE, hooks |-> <<>>, events |-> <<>>,
           err |-> NoVal, e |-> NoVal, ret |-> NoVal, logs |-> <<>>]

VARIABLES
    middleware,  \* e.middleware: the global middleware, a sequence
    head,        \* e.head: the cached chain of the default router, or NilHead
    hosts,       \* e.hosts: name -> [id, head, group, Router]
    erouter,     \* e.router: [id, routes, nroute, tree]
    nextId,      \* the identities handed out to routers and hosts so far
    pool,        \* e.pool: the contexts that are free
    ctxs,        \* every context allocated so far: id -> [req, data]
    pc,          \* the position of each worker in ServeHTTP
    pctx,        \* c of each worker (0: none)
    preq,        \* req of each worker
    pfound,      \* router, exist of each worker
    phandler,    \* handler of each worker
    pbuilt,      \* the worker built its chain instead of taking a cached one
    ptag,        \* the last mutation before the worker's dispatch began
    ran,         \* the chain the worker executed
    seen,        \* the request whose state the handler found in the context
    perr,        \* the outcome of the worker's last chain: "none", "nil", "err"
    nreq,        \* the dispatches begun so far
    nops,        \* the mutations done so far
    lastMut,     \* the last mutation, until a dispatch begins
    hostFirst,   \* name -> the identity of the Host the first Host(name) gave
    findArg,     \* the host of the last call of findRouter made on its own
    findRes,     \* the result of that call
    uriArg,      \* the name and the keyed parameters of the last call of URI
    uriVal,      \* the caller's parameter map after that call
    uriRes,      \* the string that call returned
    retired,     \* the routers that RebuildRouter replaced: id -> tree
    ptable,      \* the route table in which the worker's chain resolved
    pi,          \* i of each worker in the loop of chainMiddleware
    rbpc,        \* the position of the caller of RebuildRouter
    rbroutes,    \* routes of that call
    rbk,         \* the next route of its loop
    rbBefore,    \* the route tables when that call began
    rbAfter,     \* the route tables that call gives when it runs alone
    errh,        \* e.httpErrorHandler: "default" or a handler of the application
    debug,       \* e.debug
    pres,        \* what the worker's chain returned and what c.Error did
    sess         \* one run of the handler that the session middleware returns

vars == <<middleware, head, hosts, erouter, nextId, pool, ctxs, pc, pctx, preq,
          pfound, phandler, pbuilt, ptag, ran, seen, perr, nreq, nops, lastMut,
          hostFirst, findArg, findRes, uriArg, uriVal, uriRes, retired, ptable,
          pi, rbpc, rbroutes, rbk, rbBefore, rbAfter, errh, debug, pres,
          sess>>

procVars == <<pc, pctx, preq, pfound, phandler, pbuilt, ptag, ran, seen, perr>>
poolVars == <<pool, ctxs>>
callVars == <<findArg, findRes, uriArg, uriVal, uriRes>>
rbVars == <<rbpc, rbroutes, rbk, rbBefore, rbAfter>>
errVars == <<errh, debug>>

\* ------------------------------------------------------------- strings
HasSuffix(s, suffix) ==
    /\ Len(s) >= Len(suffix)
    /\ SubSeq(s, Len(s) - Len(suffix) + 1, Len(s)) = suffix

HasPrefix(s, prefix) ==
    /\ Len(s) >= Len(prefix)
    /\ SubSeq(s, 1, Len(prefix)) = prefix

\* ------------------------------------------------------------- routers
\* NewRouter(e): an empty router with an identity of its own.
NewRouter(id) == [id |-> id, routes |-> <<>>, nroute |-> <<>>, tree |-> <<>>]

\* e.routers: the routers that Host(name) created, by name.
RoutersOf(hs) ==
    [n \in {k \in DOMAIN hs : hs[k].Router # NoRouter} |-> hs[n].Router]

routers == RoutersOf(hosts)

\* Mutant: a name with a leading '.' is compared with the start of the host.
MatchesPatternAtStart(h, host) ==
    /\ ~(Len(host) <= Len(h))
    /\ \/ h[1] = "." /\ HasPrefix(host, h)
       \/ h[Len(h)] = "." /\ HasPrefix(host, h)

\* The condition under which the range of findRouter returns the router of
\* the registered name h for the request host.
MatchesPattern(h, host) ==
    /\ ~(Len(host) <= Len(h))
    /\ \/ h[1] = "." /\ HasSuffix(host, h)
       \/ h[Len(h)] = "." /\ HasPrefix(host, h)

\* A *Router as findRouter returns it: the registry key it lives under (the
\* empty name for e.router) and its identity.
DefaultRef(er) == [ref |-> <<>>, id |-> er.id, exist |-> FALSE]
HostRef(rs, h) == [ref |-> h, id |-> rs[h].id, exist |-> TRUE]

\* findRouter(host) over the routers rs and the default router er: the set of
\* results the call can give.  An exact entry wins; otherwise the range over
\* the map returns at the first name that matches, and the order of a range
\* over a map is not fixed.
FindRouterIn(rs, er, host) ==
    IF Cardinality(DOMAIN rs) > 0
    THEN IF host \in DOMAIN rs
         THEN {HostRef(rs, host)}
         ELSE LET ms == {h \in DOMAIN rs : MatchesPattern(h, host)}
              IN IF ms = {} THEN {DefaultRef(er)}
                 ELSE {HostRef(rs, h) : h \in ms}
    ELSE {DefaultRef(er)}

findRouter(host) == FindRouterIn(routers, erouter, host)

\* --------------------------------------------------------------- chain
\* router.Handle(nil): the terminal handler of a router.
RouterHandle(id) == [mws |-> <<>>, router |-> id]

\* ValidMiddleware(m).Handle(h): the handler that runs m, then h.
Wrap(m, h) == [h EXCEPT !.mws = <<m>> \o @]

\* Mutant: the loop walks the list from the first entry to the last.
RECURSIVE WrapFromForward(_, _, _)
WrapFromForward(mw, i, h) ==
    IF i < 1 THEN h
    ELSE WrapFromForward(mw, i - 1, Wrap(mw[Len(mw) - i + 1], h))

\* for i := len(mw) - 1; i >= 0; i-- { h = mw[i].Handle(h) }
RECURSIVE WrapFrom(_, _, _)
WrapFrom(mw, i, h) ==
    IF i < 1 THEN h ELSE WrapFrom(mw, i - 1, Wrap(mw[i], h))

ChainOf(mw, id) == WrapFrom(mw, Len(mw), RouterHandle(id))

\* ---------------------------------------------------------------- Init
Init ==
    /\ middleware = <<>>
    /\ head = NilHead
    /\ hosts = <<>>
    /\ erouter = NewRouter(1)
    /\ nextId = 1
    /\ pool = {}
    /\ ctxs = <<>>
    /\ pc = [p \in Procs |-> "idle"]
    /\ pctx = [p \in Procs |-> 0]
    /\ preq = [p \in Procs |-> NoReq]
    /\ pfound = [p \in Procs |-> NoFound]
    /\ phandler = [p \in Procs |-> NilHead]
    /\ pbuilt = [p \in Procs |-> FALSE]
    /\ ptag = [p \in Procs |-> NoTag]
    /\ ran = [p \in Procs |-> NilHead]
    /\ seen = [p \in Procs |-> 0]
    /\ perr = [p \in Procs |-> "none"]
    /\ nreq = 0
    /\ nops = 0
    /\ lastMut = NoTag
    /\ hostFirst = <<>>
    /\ findArg = <<>>
    /\ findRes = NoFound
    /\ uriArg = NoCall
    /\ uriVal = <<>>
    /\ uriRes = <<>>
    /\ retired = <<>>
    /\ ptable = [p \in Procs |-> NoTable]
    /\ pi = [p \in Procs |-> 0]
    /\ rbpc = "idle"
    /\ rbroutes = <<>>
    /\ rbk = 0
    /\ rbBefore = {}
    /\ rbAfter = {}
    /\ errh = "default"
    /\ debug = FALSE
    /\ pres = [p \in Procs |-> NoRes]
    /\ sess = NoSess

\* No dispatch is in flight: the mutations of the setup phase run here.
Quiescent == \A p \in Procs : pc[p] = "idle"

\* The scopes whose chain is cached (the empty name: the default router),
\* each with the middleware of its cached chain.
CachedScopes ==
    (IF head # NilHead THEN {<<<<>>, head.mws>>} ELSE {})
        \cup {<<n, hosts[n].head.mws>> : n \in {k \in DOMAIN hosts : hosts[k].head # NilHead}}

Tag(op, args) ==
    [op |-> op, mw |-> args, prev |-> middleware, cached |-> CachedScopes]

\* ----------------------------------------------------------- mutations
\* Use(middleware...)
Use(args) ==
    /\ nops < MaxOps
    /\ Len(middleware) + Len(args) <= MaxMw
    /\ middleware' = middleware \o args
    /\ lastMut' = Tag("Use", args)
    /\ nops' = nops + 1
    /\ UNCHANGED <<head, hosts, erouter, nextId, hostFirst, nreq>>
    /\ UNCHANGED procVars
    /\ UNCHANGED callVars
    /\ UNCHANGED rbVars
    /\ UNCHANGED <<retired, ptable, pi>>
    /\ UNCHANGED poolVars
    /\ UNCHANGED errVars
    /\ UNCHANGED pres
    /\ UNCHANGED sess

\* PreUse(middleware...), and Pre, its alias
PreUse(args) ==
    /\ nops < MaxOps
    /\ Len(middleware) + Len(args) <= MaxMw
    /\ middleware' = args \o middleware
    /\ lastMut' = Tag("Pre", args)
    /\ nops' = nops + 1
    /\ UNCHANGED <<head, hosts, erouter, nextId, hostFirst, nreq>>
    /\ UNCHANGED procVars
    /\ UNCHANGED callVars
    /\ UNCHANGED rbVars
    /\ UNCHANGED <<retired, ptable, pi>>
    /\ UNCHANGED poolVars
    /\ UNCHANGED errVars
    /\ UNCHANGED pres
    /\ UNCHANGED sess

\* The inner loop of Clear for one argument dm.  The range walks the slice as
\* it was when the loop began (n entries of the backing array arr), while the
\* body shifts the entries of that same array; len is len(e.middleware), i the
\* range index (1-based here) and decr the entries removed so far.
RECURSIVE ClearLoop(_, _, _, _, _)
ClearLoop(arr, len, i, decr, dm) ==
    IF i > Len(arr) THEN SubSeq(arr, 1, len)
    ELSE IF arr[i] # dm THEN ClearLoop(arr, len, i + 1, decr, dm)
    ELSE LET at == i - decr
         IN IF at < len
            THEN ClearLoop([k \in 1..Len(arr) |->
                               IF k >= at /\ k < len THEN arr[k + 1] ELSE arr[k]],
                           len - 1, i + 1, decr + 1, dm)
            ELSE ClearLoop(arr, at - 1, i + 1, decr + 1, dm)

\* for _, dm := range middleware { ... }
RECURSIVE ClearEach(_, _)
ClearEach(mw, dms) ==
    IF dms = <<>> THEN mw
    ELSE ClearEach(ClearLoop(mw, Len(mw), 1, 0, Head(dms)), Tail(dms))

\* Mutant: Clear leaves the cached chain in place.
ClearKeepsHead(args) ==
    /\ nops < MaxOps
    /\ middleware' = IF Len(args) > 0 THEN ClearEach(middleware, args) ELSE <<>>
    /\ lastMut' = Tag("Clear", args)
    /\ nops' = nops + 1
    /\ UNCHANGED <<head, hosts, erouter, nextId, hostFirst, nreq>>
    /\ UNCHANGED procVars
    /\ UNCHANGED callVars
    /\ UNCHANGED rbVars
    /\ UNCHANGED <<retired, ptable, pi>>
    /\ UNCHANGED poolVars
    /\ UNCHANGED errVars
    /\ UNCHANGED pres
    /\ UNCHANGED sess

\* Clear(middleware...)
Clear(args) ==
    /\ nops < MaxOps
    /\ middleware' = IF Len(args) > 0 THEN ClearEach(middleware, args) ELSE <<>>
    /\ head' = NilHead
    /\ lastMut' = Tag("Clear", args)
    /\ nops' = nops + 1
    /\ UNCHANGED <<hosts, erouter, nextId, hostFirst, nreq>>
    /\ UNCHANGED procVars
    /\ UNCHANGED callVars
    /\ UNCHANGED rbVars
    /\ UNCHANGED <<retired, ptable, pi>>
    /\ UNCHANGED poolVars
    /\ UNCHANGED errVars
    /\ UNCHANGED pres
    /\ UNCHANGED sess

\* Host(name) with no host-level middleware: lookup or create.
NewHost(name, id) ==
    [id |-> id, head |-> NilHead, group |-> TRUE,
     Router |-> [id |-> id + 1, tree |-> <<>>]]

Host(name) ==
    /\ nops < MaxOps
    /\ IF name \in DOMAIN hosts
       THEN UNCHANGED <<hosts, nextId>>
       ELSE /\ hosts' = hosts @@ (name :> NewHost(name, nextId + 1))
            /\ nextId' = nextId + 2
    /\ hostFirst' = IF name \in DOMAIN hostFirst THEN hostFirst
                    ELSE hostFirst @@ (name :> hosts'[name].id)
    /\ nops' = nops + 1
    /\ UNCHANGED <<middleware, head, erouter, lastMut, nreq>>
    /\ UNCHANGED procVars
    /\ UNCHANGED callVars
    /\ UNCHANGED rbVars
    /\ UNCHANGED <<retired, ptable, pi>>
    /\ UNCHANGED poolVars
    /\ UNCHANGED errVars
    /\ UNCHANGED pres
    /\ UNCHANGED sess

\* -------------------------------------------------------- router build
\* Router.Add(r, rid): the route enters the router's match structure under
\* the index rid.  The name map of e.router is maintained by the callers
\* (RebuildRouter, AppendRouter), as their code shows.
RouterAdd(rt, r, rid) == [rt EXCEPT !.tree = Append(@, [route |-> r, rid |-> rid])]

\* router.Add(r, i) on the router that findRouter gave.
AddVia(f, er, hs, r, rid) ==
    IF f.exist
    THEN [er |-> er, hs |-> [hs EXCEPT ![f.ref].Router = RouterAdd(@, r, rid)]]
    ELSE [er |-> RouterAdd(er, r, rid), hs |-> hs]

\* Mutant: the index replaces the list of the name.
NameAddOverwrites(er, name, i) ==
    [er EXCEPT !.nroute = IF name \in DOMAIN @
                          THEN [@ EXCEPT ![name] = <<i>>]
                          ELSE @ @@ (name :> <<i>>)]

\* if _, ok := nroute[name]; !ok { nroute[name] = []int{i} } else { append }
NameAdd(er, name, i) ==
    [er EXCEPT !.nroute = IF name \in DOMAIN @
                          THEN [@ EXCEPT ![name] = Append(@, i)]
                          ELSE @ @@ (name :> <<i>>)]

\* The loop of RebuildRouter from the k-th route on (indices start at 0 in
\* the code): the set of outcomes, one for every choice findRouter can make.
RECURSIVE RebuildLoop(_, _, _, _)
RebuildLoop(routes, k, er, hs) ==
    IF k > Len(routes) THEN {[er |-> er, hs |-> hs]}
    ELSE UNION {
        LET a == AddVia(f, er, hs, routes[k], k - 1)
        IN RebuildLoop(routes, k + 1, NameAdd(a.er, routes[k].Name, k - 1), a.hs)
        : f \in FindRouterIn(RoutersOf(hs), er, routes[k].Host)}

\* The loop of AppendRouter from the k-th route on.
RECURSIVE AppendLoop(_, _, _, _)
AppendLoop(routes, k, er, hs) ==
    IF k > Len(routes) THEN {[er |-> er, hs |-> hs]}
    ELSE UNION {
        LET i == Len(er.routes)
            a == AddVia(f, er, hs, routes[k], i)
            n == NameAdd(a.er, routes[k].Name, i)
        IN AppendLoop(routes, k + 1,
                      [n EXCEPT !.routes = Append(@, routes[k])], a.hs)
        : f \in FindRouterIn(RoutersOf(hs), er, routes[k].Host)}

\* The routers that RebuildRouter replaced live on while a chain leads to
\* them: the cached chain of the default router or the chain of a dispatch
\* in flight (ids: the routers those chains end in).
StillHeld(rs, ids) == [id \in DOMAIN rs \cap ids |-> rs[id]]

\* Add(method, path, handler): the route joins e.router.routes.
Add(r) ==
    /\ nops < MaxOps
    /\ Len(erouter.routes) < MaxRoutes
    /\ erouter' = [erouter EXCEPT !.routes = Append(@, r)]
    /\ lastMut' = Tag("Add", <<>>)
    /\ nops' = nops + 1
    /\ UNCHANGED <<middleware, head, hosts, nextId, hostFirst, nreq>>
    /\ UNCHANGED procVars
    /\ UNCHANGED callVars
    /\ UNCHANGED rbVars
    /\ UNCHANGED <<retired, ptable, pi>>
    /\ UNCHANGED poolVars
    /\ UNCHANGED errVars
    /\ UNCHANGED pres
    /\ UNCHANGED sess

\* RebuildRouter(args...): args is <<>> or <<routes>>.
RebuildRouter(args) ==
    /\ nops < MaxOps
    /\ LET routes == IF Len(args) > 0 THEN args[1] ELSE erouter.routes
       IN \E o \in RebuildLoop(routes, 1, NewRouter(nextId + 1), hosts) :
            /\ erouter' = [o.er EXCEPT !.routes = routes]
            /\ hosts' = o.hs
    /\ nextId' = nextId + 1
    /\ head' = NilHead
    /\ retired' = StillHeld(retired @@ (erouter.id :> erouter.tree),
                            {phandler[p].router : p \in Procs})
    /\ lastMut' = Tag("Rebuild", <<>>)
    /\ nops' = nops + 1
    /\ UNCHANGED <<middleware, hostFirst, nreq>>
    /\ UNCHANGED procVars
    /\ UNCHANGED callVars
    /\ UNCHANGED rbVars
    /\ UNCHANGED <<ptable, pi>>
    /\ UNCHANGED poolVars
    /\ UNCHANGED errVars
    /\ UNCHANGED pres
    /\ UNCHANGED sess

\* AppendRouter(routes)
AppendRouter(routes) ==
    /\ nops < MaxOps
    /\ Len(erouter.routes) + Len(routes) <= MaxRoutes
    /\ \E o \in AppendLoop(routes, 1, erouter, hosts) :
            /\ erouter' = o.er
            /\ hosts' = o.hs
    /\ head' = NilHead
    /\ lastMut' = Tag("Append", <<>>)
    /\ nops' = nops + 1
    /\ UNCHANGED <<middleware, nextId, hostFirst, nreq>>
    /\ UNCHANGED procVars
    /\ UNCHANGED callVars
    /\ UNCHANGED rbVars
    /\ UNCHANGED <<retired, ptable, pi>>
    /\ UNCHANGED poolVars
    /\ UNCHANGED errVars
    /\ UNCHANGED pres
    /\ UNCHANGED sess

\* ------------------------------------------------------------ dispatch
\* ServeHTTP, one step per statement.  The chain is fetched or built in one
\* step here; the actions of DispatchSteps build it assignment by assignment.

\* c := e.pool.Get().(Context): a free context, or a new one from pool.New
\* (sync.Pool may call New although a context was put back).
Get(p, h) ==
    /\ pc[p] = "idle"
    /\ nreq < MaxDispatch
    /\ \/ \E c \in pool :
            /\ pool' = pool \ {c}
            /\ pctx' = [pctx EXCEPT ![p] = c]
            /\ UNCHANGED ctxs
       \/ /\ Len(ctxs) < MaxCtx
          /\ ctxs' = Append(ctxs, [req |-> 0, data |-> 0])
          /\ pctx' = [pctx EXCEPT ![p] = Len(ctxs) + 1]
          /\ UNCHANGED pool
    /\ preq' = [preq EXCEPT ![p] = [id |-> nreq + 1, host |-> h]]
    /\ nreq' = nreq + 1
    /\ ptag' = [ptag EXCEPT ![p] = lastMut]
    /\ lastMut' = NoTag
    /\ pc' = [pc EXCEPT ![p] = "reset"]
    /\ UNCHANGED callVars
    /\ UNCHANGED rbVars
    /\ UNCHANGED <<retired, ptable, pi>>
    /\ UNCHANGED <<middleware, head, hosts, erouter, nextId, hostFirst, nops>>
    /\ perr' = [perr EXCEPT ![p] = "none"]
    /\ UNCHANGED <<pfound, phandler, pbuilt, ran, seen>>
    /\ UNCHANGED errVars
    /\ UNCHANGED pres
    /\ UNCHANGED sess

\* Context.Reset(req, res): the context holds the new request and none of
\* the state a handler left in it.
ResetContext(c, req) == [req |-> req.id, data |-> 0]

\* Mutant: the context is used as the pool gave it.
ResetSkipped(p) ==
    /\ pc[p] = "reset"
    /\ pc' = [pc EXCEPT ![p] = "find"]
    /\ UNCHANGED callVars
    /\ UNCHANGED rbVars
    /\ UNCHANGED <<retired, ptable, pi>>
    /\ UNCHANGED <<middleware, head, hosts, erouter, nextId, hostFirst, nops,
                   nreq, lastMut>>
    /\ UNCHANGED poolVars
    /\ UNCHANGED <<pctx, preq, pfound, phandler, pbuilt, ptag, ran, seen, perr>>
    /\ UNCHANGED errVars
    /\ UNCHANGED pres
    /\ UNCHANGED sess

\* c.Reset(req, res)
Reset(p) ==
    /\ pc[p] = "reset"
    /\ ctxs' = [ctxs EXCEPT ![pctx[p]] = ResetContext(@, preq[p])]
    /\ pc' = [pc EXCEPT ![p] = "find"]
    /\ UNCHANGED callVars
    /\ UNCHANGED rbVars
    /\ UNCHANGED <<retired, ptable, pi>>
    /\ UNCHANGED <<middleware, head, hosts, erouter, nextId, hostFirst, nops,
                   nreq, lastMut, pool>>
    /\ UNCHANGED <<pctx, preq, pfound, phandler, pbuilt, ptag, ran, seen, perr>>
    /\ UNCHANGED errVars
    /\ UNCHANGED pres
    /\ UNCHANGED sess

\* host := req.Host(); router, exist := e.findRouter(host)
Find(p) ==
    /\ pc[p] = "find"
    /\ \E f \in findRouter(preq[p].host) : pfound' = [pfound EXCEPT ![p] = f]
    /\ pc' = [pc EXCEPT ![p] = "chain"]
    /\ UNCHANGED callVars
    /\ UNCHANGED rbVars
    /\ UNCHANGED <<retired, ptable, pi>>
    /\ UNCHANGED <<middleware, head, hosts, erouter, nextId, hostFirst, nops,
                   nreq, lastMut>>
    /\ UNCHANGED poolVars
    /\ UNCHANGED <<pctx, preq, phandler, pbuilt, ptag, ran, seen, perr>>
    /\ UNCHANGED errVars
    /\ UNCHANGED pres
    /\ UNCHANGED sess

\* handler = e.chainMiddleware()
chainMiddleware(p) ==
    /\ ~pfound[p].exist
    /\ IF head # NilHead
       THEN /\ phandler' = [phandler EXCEPT ![p] = head]
            /\ pbuilt' = [pbuilt EXCEPT ![p] = FALSE]
            /\ UNCHANGED head
       ELSE /\ head' = ChainOf(middleware, erouter.id)
            /\ phandler' = [phandler EXCEPT ![p] = head']
            /\ pbuilt' = [pbuilt EXCEPT ![p] = TRUE]
    /\ UNCHANGED <<hosts, nextId>>

\* handler = e.chainMiddlewareByHost(host, router)
chainMiddlewareByHost(p) ==
    /\ pfound[p].exist
    /\ LET host == preq[p].host
           ok == host \in DOMAIN hosts
       IN IF ok /\ hosts[host].head # NilHead
          THEN /\ phandler' = [phandler EXCEPT ![p] = hosts[host].head]
               /\ pbuilt' = [pbuilt EXCEPT ![p] = FALSE]
               /\ UNCHANGED <<hosts, nextId>>
          ELSE LET handler == ChainOf(middleware, pfound[p].id)
                   hs == IF ok THEN hosts
                         ELSE hosts @@ (host :> [id |-> nextId + 1,
                                                 head |-> NilHead,
                                                 group |-> FALSE,
                                                 Router |-> NoRouter])
               IN /\ hosts' = [hs EXCEPT ![host].head = handler]
                  /\ nextId' = IF ok THEN nextId ELSE nextId + 1
                  /\ phandler' = [phandler EXCEPT ![p] = handler]
                  /\ pbuilt' = [pbuilt EXCEPT ![p] = TRUE]
    /\ UNCHANGED head

\* if exist { chainMiddlewareByHost } else { chainMiddleware }
Chain(p) ==
    /\ pc[p] = "chain"
    /\ \/ chainMiddlewareByHost(p)
       \/ chainMiddleware(p)
    /\ pc' = [pc EXCEPT ![p] = "handle"]
    /\ UNCHANGED callVars
    /\ UNCHANGED rbVars
    /\ UNCHANGED <<retired, ptable, pi>>
    /\ UNCHANGED <<middleware, erouter, hostFirst, nops, nreq, lastMut>>
    /\ UNCHANGED poolVars
    /\ UNCHANGED <<pctx, preq, pfound, ptag, ran, seen, perr>>
    /\ UNCHANGED errVars
    /\ UNCHANGED pres
    /\ UNCHANGED sess

\* ------------------------------------------------------ error handling
\* The errors a chain returns: an error of any type, or a *HTTPError with a
\* code and a message.  text is err.Error().
PlainErr == [kind |-> "plain", code |-> 0, message |-> "", text |-> "boom"]
HTTPErr(code, message) ==
    [kind |-> "http", code |-> code, message |-> message, text |-> message]
Errs == {PlainErr, HTTPErr(404, "Not Found"), HTTPErr(0, "No Code")}
Methods == {"GET", "HEAD"}

\* What a chain can give back to ServeHTTP.
AllOutcomes ==
    [err : Errs \cup {NoErr}, committed : BOOLEAN, method : Methods]

\* The two outcomes the dispatches of the other specifications draw from.
Outcomes ==
    {[err |-> NoErr, committed |-> TRUE, method |-> "GET"],
     [err |-> PlainErr, committed |-> FALSE, method |-> "GET"]}

\* The response and the log of a request when its chain has returned out.
Returned(out) ==
    [out |-> out, committed |-> out.committed, writes |-> <<>>, logs |-> <<>>,
     calls |-> <<>>]

\* c.NoContent(code), c.String(msg, code), c.String(msg): one write of a
\* status and a body (none for NoContent), which commits the response.
Respond(c, code, body) ==
    [c EXCEPT !.writes = Append(@, [code |-> code, body |-> body]),
              !.committed = TRUE]

\* http.StatusText(http.StatusInternalServerError)
StatusText500 == "Internal Server Error"

\* Mutant: the handler writes without asking whether the response is committed.
DefaultHTTPErrorHandlerWrites(err, c) ==
    LET code == IF err.kind = "http" THEN err.code ELSE 500
        msg0 == IF err.kind = "http" THEN err.message ELSE StatusText500
        msg == IF debug THEN err.text ELSE msg0
        w == IF c.out.method = "HEAD" THEN Respond(c, code, "none")
             ELSE IF code > 0 THEN Respond(c, code, msg)
             ELSE Respond(c, 200, msg)
    IN [w EXCEPT !.logs = Append(@, err)]

\* DefaultHTTPErrorHandler(err, c)
DefaultHTTPErrorHandler(err, c) ==
    LET code == IF err.kind = "http" THEN err.code ELSE 500
        msg0 == IF err.kind = "http" THEN err.message ELSE StatusText500
        msg == IF debug THEN err.text ELSE msg0
        w == IF ~c.committed
             THEN IF c.out.method = "HEAD" THEN Respond(c, code, "none")
                  ELSE IF code > 0 THEN Respond(c, code, msg)
                  ELSE Respond(c, 200, msg)
             ELSE c
    IN [w EXCEPT !.logs = Append(@, err)]

\* c.Error(err): the context hands the error to e.httpErrorHandler.  A
\* handler of the application is recorded as called and nothing more.
ContextError(err, c) ==
    LET called == [c EXCEPT !.calls = Append(@, [handler |-> errh, err |-> err])]
    IN IF errh = "default" THEN DefaultHTTPErrorHandler(err, called) ELSE called

\* SetHTTPErrorHandler(h)
SetHTTPErrorHandler(h) ==
    /\ nops < MaxOps
    /\ errh' = h
    /\ nops' = nops + 1
    /\ UNCHANGED <<middleware, head, hosts, erouter, nextId, hostFirst, nreq,
                   lastMut, debug, pres>>
    /\ UNCHANGED procVars
    /\ UNCHANGED poolVars
    /\ UNCHANGED callVars
    /\ UNCHANGED rbVars
    /\ UNCHANGED <<retired, ptable, pi>>
    /\ UNCHANGED sess

\* SetDebug(on)
SetDebug(on) ==
    /\ nops < MaxOps
    /\ debug' = on
    /\ nops' = nops + 1
    /\ UNCHANGED <<middleware, head, hosts, erouter, nextId, hostFirst, nreq,
                   lastMut, errh, pres>>
    /\ UNCHANGED procVars
    /\ UNCHANGED poolVars
    /\ UNCHANGED callVars
    /\ UNCHANGED rbVars
    /\ UNCHANGED <<retired, ptable, pi>>
    /\ UNCHANGED sess

\* The routes a router holds: e.router, a router that RebuildRouter replaced
\* (a cached chain may still lead to it), or the Router of a host.
TreeOf(id) ==
    IF id = erouter.id THEN erouter.tree
    ELSE IF id \in DOMAIN retired THEN retired[id]
    ELSE LET ns == {n \in DOMAIN hosts : hosts[n].Router.id = id}
         IN IF ns = {} THEN <<>> ELSE hosts[CHOOSE n \in ns : TRUE].Router.tree

\* The table in which the terminal handler of the worker's chain looks the
\* request up when the chain runs; nil: the chain ends in no router at all.
TableSeen(p) ==
    [role |-> pfound[p].ref, tree |-> TreeOf(phandler[p].router),
     nil |-> phandler[p].router = 0]

\* Mutant: ServeHTTP returns after c.Error(err), before e.pool.Put(c).
HandleReturnsOnError(p, out) ==
    /\ pc[p] = "handle"
    /\ ran' = [ran EXCEPT ![p] = phandler[p]]
    /\ seen' = [seen EXCEPT ![p] = ctxs[pctx[p]].data]
    /\ ctxs' = [ctxs EXCEPT ![pctx[p]].data = preq[p].id]
    /\ perr' = [perr EXCEPT ![p] = IF out.err # NoErr THEN "err" ELSE "nil"]
    /\ pres' = [pres EXCEPT ![p] = IF out.err # NoErr
                                   THEN ContextError(out.err, Returned(out))
                                   ELSE Returned(out)]
    /\ pc' = [pc EXCEPT ![p] = IF out.err # NoErr THEN "lost" ELSE "put"]
    /\ ptable' = [ptable EXCEPT ![p] = TableSeen(p)]
    /\ UNCHANGED callVars
    /\ UNCHANGED rbVars
    /\ UNCHANGED <<retired, pi>>
    /\ UNCHANGED <<middleware, head, hosts, erouter, nextId, hostFirst, nops,
                   nreq, lastMut, pool>>
    /\ UNCHANGED <<pctx, preq, pfound, phandler, pbuilt, ptag>>
    /\ UNCHANGED errVars
    /\ UNCHANGED sess

\* Mutant: c.Error(err) is called whatever the chain returned.
HandleErrorAlways(p, out) ==
    /\ pc[p] = "handle"
    /\ ran' = [ran EXCEPT ![p] = phandler[p]]
    /\ seen' = [seen EXCEPT ![p] = ctxs[pctx[p]].data]
    /\ ctxs' = [ctxs EXCEPT ![pctx[p]].data = preq[p].id]
    /\ perr' = [perr EXCEPT ![p] = IF out.err # NoErr THEN "err" ELSE "nil"]
    /\ pres' = [pres EXCEPT ![p] = ContextError(out.err, Returned(out))]
    /\ pc' = [pc EXCEPT ![p] = "put"]
    /\ ptable' = [ptable EXCEPT ![p] = TableSeen(p)]
    /\ UNCHANGED callVars
    /\ UNCHANGED rbVars
    /\ UNCHANGED <<retired, pi>>
    /\ UNCHANGED <<middleware, head, hosts, erouter, nextId, hostFirst, nops,
                   nreq, lastMut, pool>>
    /\ UNCHANGED <<pctx, preq, pfound, phandler, pbuilt, ptag>>
    /\ UNCHANGED errVars
    /\ UNCHANGED sess

\* if err := handler.Handle(c); err != nil { c.Error(err) }
\* The chain runs on the context: it finds what the context holds and leaves
\* the state of its own request in it.  out is the chain's outcome: the error
\* it returned (NoErr: nil) and whether it committed the response; the method
\* of the request is drawn with it, nothing before this step reads it.
Handle(p, out) ==
    /\ pc[p] = "handle"
    /\ ran' = [ran EXCEPT ![p] = phandler[p]]
    /\ seen' = [seen EXCEPT ![p] = ctxs[pctx[p]].data]
    /\ ctxs' = [ctxs EXCEPT ![pctx[p]].data = preq[p].id]
    /\ perr' = [perr EXCEPT ![p] = IF out.err # NoErr THEN "err" ELSE "nil"]
    /\ pres' = [pres EXCEPT ![p] = IF out.err # NoErr
                                   THEN ContextError(out.err, Returned(out))
                                   ELSE Returned(out)]
    /\ pc' = [pc EXCEPT ![p] = "put"]
    /\ ptable' = [ptable EXCEPT ![p] = TableSeen(p)]
    /\ UNCHANGED callVars
    /\ UNCHANGED rbVars
    /\ UNCHANGED <<retired, pi>>
    /\ UNCHANGED <<middleware, head, hosts, erouter, nextId, hostFirst, nops,
                   nreq, lastMut, pool>>
    /\ UNCHANGED <<pctx, preq, pfound, phandler, pbuilt, ptag>>
    /\ UNCHANGED errVars
    /\ UNCHANGED sess

\* e.pool.Put(c), and ServeHTTP returns
Put(p) ==
    /\ pc[p] = "put"
    /\ pool' = pool \cup {pctx[p]}
    /\ pc' = [pc EXCEPT ![p] = "idle"]
    /\ ptable' = [ptable EXCEPT ![p] = NoTable]
    /\ pres' = [pres EXCEPT ![p] = NoRes]
    /\ UNCHANGED callVars
    /\ UNCHANGED rbVars
    /\ UNCHANGED <<retired, pi>>
    /\ pctx' = [pctx EXCEPT ![p] = 0]
    /\ preq' = [preq EXCEPT ![p] = NoReq]
    /\ pfound' = [pfound EXCEPT ![p] = NoFound]
    /\ phandler' = [phandler EXCEPT ![p] = NilHead]
    /\ pbuilt' = [pbuilt EXCEPT ![p] = FALSE]
    /\ ptag' = [ptag EXCEPT ![p] = NoTag]
    /\ ran' = [ran EXCEPT ![p] = NilHead]
    /\ seen' = [seen EXCEPT ![p] = 0]
    /\ UNCHANGED <<middleware, head, hosts, erouter, nextId, hostFirst, nops,
                   nreq, lastMut, ctxs, perr>>
    /\ UNCHANGED errVars
    /\ UNCHANGED sess

\* One step of the dispatch of worker p.
Dispatch(p) ==
    \/ \E h \in ReqHosts : Get(p, h)
    \/ Reset(p)
    \/ Find(p)
    \/ Chain(p)
    \/ \E out \in Outcomes : Handle(p, out)
    \/ Put(p)

\* ------------------------------------------- chain building, step by step
\* chainMiddleware composes the chain in the field e.head itself, one
\* assignment after the other; chainMiddlewareByHost composes it in a local
\* variable and stores it in the host's entry when it is complete.

\* if exist { h, ok := e.hosts[host]; if !ok {...} else if h.head != nil
\* { return h.head } } else { if e.head != nil { return e.head } }
ChainCheck(p) ==
    /\ pc[p] = "chain"
    /\ IF pfound[p].exist
       THEN LET host == preq[p].host
                ok == host \in DOMAIN hosts
            IN IF ok /\ hosts[host].head # NilHead
               THEN /\ phandler' = [phandler EXCEPT ![p] = hosts[host].head]
                    /\ pbuilt' = [pbuilt EXCEPT ![p] = FALSE]
                    /\ pc' = [pc EXCEPT ![p] = "handle"]
                    /\ UNCHANGED <<hosts, nextId>>
               ELSE /\ hosts' = IF ok THEN hosts
                                ELSE hosts @@ (host :> [id |-> nextId + 1,
                                                        head |-> NilHead,
                                                        group |-> FALSE,
                                                        Router |-> NoRouter])
                    /\ nextId' = IF ok THEN nextId ELSE nextId + 1
                    /\ pc' = [pc EXCEPT ![p] = "hostbuild"]
                    /\ UNCHANGED <<phandler, pbuilt>>
       ELSE /\ IF head # NilHead
               THEN /\ phandler' = [phandler EXCEPT ![p] = head]
                    /\ pbuilt' = [pbuilt EXCEPT ![p] = FALSE]
                    /\ pc' = [pc EXCEPT ![p] = "handle"]
               ELSE /\ pc' = [pc EXCEPT ![p] = "base"]
                    /\ UNCHANGED <<phandler, pbuilt>>
            /\ UNCHANGED <<hosts, nextId>>
    /\ UNCHANGED <<middleware, head, erouter, hostFirst, nops, nreq, lastMut>>
    /\ UNCHANGED <<pctx, preq, pfound, ptag, ran, seen, perr>>
    /\ UNCHANGED poolVars
    /\ UNCHANGED callVars
    /\ UNCHANGED rbVars
    /\ UNCHANGED <<retired, ptable, pi>>
    /\ UNCHANGED errVars
    /\ UNCHANGED pres
    /\ UNCHANGED sess

\* e.head = e.router.Handle(nil); i := len(e.middleware) - 1
ChainBase(p) ==
    /\ pc[p] = "base"
    /\ head' = RouterHandle(erouter.id)
    /\ pi' = [pi EXCEPT ![p] = Len(middleware)]
    /\ pc' = [pc EXCEPT ![p] = "wrap"]
    /\ UNCHANGED <<middleware, hosts, erouter, nextId, hostFirst, nops, nreq,
                   lastMut>>
    /\ UNCHANGED <<pctx, preq, pfound, phandler, pbuilt, ptag, ran, seen, perr>>
    /\ UNCHANGED poolVars
    /\ UNCHANGED callVars
    /\ UNCHANGED rbVars
    /\ UNCHANGED <<retired, ptable>>
    /\ UNCHANGED errVars
    /\ UNCHANGED pres
    /\ UNCHANGED sess

\* e.head = e.ValidMiddleware(e.middleware[i]).Handle(e.head); i--
ChainWrap(p) ==
    /\ pc[p] = "wrap"
    /\ pi[p] >= 1
    /\ head' = Wrap(middleware[pi[p]], head)
    /\ pi' = [pi EXCEPT ![p] = @ - 1]
    /\ UNCHANGED <<middleware, hosts, erouter, nextId, hostFirst, nops, nreq,
                   lastMut>>
    /\ UNCHANGED <<pc, pctx, preq, pfound, phandler, pbuilt, ptag, ran, seen, perr>>
    /\ UNCHANGED poolVars
    /\ UNCHANGED callVars
    /\ UNCHANGED rbVars
    /\ UNCHANGED <<retired, ptable>>
    /\ UNCHANGED errVars
    /\ UNCHANGED pres
    /\ UNCHANGED sess

\* return e.head, after the loop
ChainReturn(p) ==
    /\ pc[p] = "wrap"
    /\ pi[p] < 1
    /\ phandler' = [phandler EXCEPT ![p] = head]
    /\ pbuilt' = [pbuilt EXCEPT ![p] = TRUE]
    /\ pc' = [pc EXCEPT ![p] = "handle"]
    /\ UNCHANGED <<middleware, head, hosts, erouter, nextId, hostFirst, nops,
                   nreq, lastMut>>
    /\ UNCHANGED <<pctx, preq, pfound, ptag, ran, seen, perr>>
    /\ UNCHANGED poolVars
    /\ UNCHANGED callVars
    /\ UNCHANGED rbVars
    /\ UNCHANGED <<retired, ptable, pi>>
    /\ UNCHANGED errVars
    /\ UNCHANGED pres
    /\ UNCHANGED sess

\* handler := router.Handle(nil); for ... { handler = ...Handle(handler) };
\* e.hosts[host].head = handler; return handler
HostChainStore(p) ==
    /\ pc[p] = "hostbuild"
    /\ LET handler == ChainOf(middleware, pfound[p].id)
       IN /\ hosts' = [hosts EXCEPT ![preq[p].host].head = handler]
          /\ phandler' = [phandler EXCEPT ![p] = handler]
    /\ pbuilt' = [pbuilt EXCEPT ![p] = TRUE]
    /\ pc' = [pc EXCEPT ![p] = "handle"]
    /\ UNCHANGED <<middleware, head, erouter, nextId, hostFirst, nops, nreq,
                   lastMut>>
    /\ UNCHANGED <<pctx, preq, pfound, ptag, ran, seen, perr>>
    /\ UNCHANGED poolVars
    /\ UNCHANGED callVars
    /\ UNCHANGED rbVars
    /\ UNCHANGED <<retired, ptable, pi>>
    /\ UNCHANGED errVars
    /\ UNCHANGED pres
    /\ UNCHANGED sess

\* One step of the dispatch of worker p, the chain built step by step.
DispatchSteps(p) ==
    \/ \E h \in ReqHosts : Get(p, h)
    \/ Reset(p)
    \/ Find(p)
    \/ ChainCheck(p)
    \/ ChainBase(p)
    \/ ChainWrap(p)
    \/ ChainReturn(p)
    \/ HostChainStore(p)
    \/ \E out \in Outcomes : Handle(p, out)
    \/ Put(p)

\* ---------------------------------------------- RebuildRouter, step by step
\* The route tables by role: the default router under the empty name, the
\* router of every registered host under its name.
Tables(er, hs) ==
    {[role |-> <<>>, tree |-> er.tree, nil |-> FALSE]}
        \cup {[role |-> n, tree |-> hs[n].Router.tree, nil |-> FALSE] :
                 n \in DOMAIN RoutersOf(hs)}

\* routes := ...; e.router = NewRouter(e)
RebuildBegin(args) ==
    /\ rbpc = "idle"
    /\ nops < MaxOps
    /\ LET routes == IF Len(args) > 0 THEN args[1] ELSE erouter.routes
       IN /\ rbroutes' = routes
          /\ rbAfter' = UNION {Tables(o.er, o.hs) :
                                 o \in RebuildLoop(routes, 1, NewRouter(nextId + 1),
                                                   hosts)}
    /\ rbBefore' = Tables(erouter, hosts)
    /\ retired' = StillHeld(retired @@ (erouter.id :> erouter.tree),
                            {phandler[p].router : p \in Procs} \cup {head.router})
    /\ erouter' = NewRouter(nextId + 1)
    /\ nextId' = nextId + 1
    /\ rbk' = 1
    /\ rbpc' = "loop"
    /\ nops' = nops + 1
    /\ UNCHANGED <<middleware, head, hosts, hostFirst, nreq, lastMut>>
    /\ UNCHANGED procVars
    /\ UNCHANGED poolVars
    /\ UNCHANGED callVars
    /\ UNCHANGED <<ptable, pi>>
    /\ UNCHANGED errVars
    /\ UNCHANGED pres
    /\ UNCHANGED sess

\* one iteration of   for i, r := range routes { ... }
RebuildStep ==
    /\ rbpc = "loop"
    /\ rbk <= Len(rbroutes)
    /\ \E f \in findRouter(rbroutes[rbk].Host) :
          LET a == AddVia(f, erouter, hosts, rbroutes[rbk], rbk - 1)
          IN /\ erouter' = NameAdd(a.er, rbroutes[rbk].Name, rbk - 1)
             /\ hosts' = a.hs
    /\ rbk' = rbk + 1
    /\ UNCHANGED <<middleware, head, nextId, hostFirst, nops, nreq, lastMut>>
    /\ UNCHANGED procVars
    /\ UNCHANGED poolVars
    /\ UNCHANGED callVars
    /\ UNCHANGED <<rbpc, rbroutes, rbBefore, rbAfter>>
    /\ UNCHANGED <<retired, ptable, pi>>
    /\ UNCHANGED errVars
    /\ UNCHANGED pres
    /\ UNCHANGED sess

\* e.router.routes = routes; e.head = nil; return e
RebuildEnd ==
    /\ rbpc = "loop"
    /\ rbk > Len(rbroutes)
    /\ erouter' = [erouter EXCEPT !.routes = rbroutes]
    /\ head' = NilHead
    /\ rbpc' = "done"
    /\ UNCHANGED <<middleware, hosts, nextId, hostFirst, nops, nreq, lastMut>>
    /\ UNCHANGED procVars
    /\ UNCHANGED poolVars
    /\ UNCHANGED callVars
    /\ UNCHANGED <<rbroutes, rbk, rbBefore, rbAfter>>
    /\ UNCHANGED <<retired, ptable, pi>>
    /\ UNCHANGED errVars
    /\ UNCHANGED pres
    /\ UNCHANGED sess

\* ------------------------------------------------------- specification
\* Mutations run in the setup phases, while no dispatch is in flight;
\* dispatches run concurrently with each other.
Next ==
    \/ \E args \in MwArgs : Quiescent /\ Use(args)
    \/ \E args \in MwArgs : Quiescent /\ PreUse(args)
    \/ \E args \in SeqsUpTo(Mws, 1) : Quiescent /\ Clear(args)
    \/ \E name \in HostNames : Quiescent /\ Host(name)
    \/ Quiescent /\ RebuildRouter(<<>>)
    \/ \E p \in Procs : Dispatch(p)

Spec == Init /\ [][Next]_vars

\* The serving phase: hosts are registered, then dispatches run.  A dispatch
\* runs on a goroutine of its own, which the scheduler keeps running until
\* ServeHTTP returns.
ServeNext ==
    \/ \E name \in HostNames : Quiescent /\ nreq = 0 /\ Host(name)
    \/ \E p \in Procs : Dispatch(p)

FairSpec ==
    Init /\ [][ServeNext]_vars /\ \A p \in Procs : WF_vars(Dispatch(p))

\* The setup phase on its own: the calls that change the middleware list.
SetupNext ==
    \/ \E args \in MwArgs : Use(args)
    \/ \E args \in MwArgs : PreUse(args)
    \/ \E args \in SeqsUpTo(Mws, MaxArgs) : Clear(args)

SpecSetup == Init /\ [][SetupNext]_vars

\* ---------------------------------------------------- the router build
\* Path patterns, as sequences of characters.
PathUA == <<"/", "u", "/", ":", "a">>
PathAB == <<"/", ":", "a", "/", ":", "b">>

\* The routes registered: two that share a name and differ in their path,
\* one bound to a host.
Route(host, name, handler, path) ==
    [Host |-> host, Name |-> name, Handler |-> handler, Path |-> path]

RouteSet ==
    {Route(<<>>, "n1", "h1", PathUA), Route(<<>>, "n1", "h2", PathAB),
     Route(DotA, "n2", "h3", PathAB)}

RouteLists == SeqsUpTo(RouteSet, MaxArgs)

BuildNext ==
    \/ \E r \in RouteSet : Add(r)
    \/ \E rs \in RouteLists : RebuildRouter(<<rs>>)
    \/ RebuildRouter(<<>>)
    \/ \E rs \in RouteLists \ {<<>>} : AppendRouter(rs)
    \/ Host(DotA)

SpecBuild == Init /\ [][BuildNext]_vars

\* A rebuild while requests are served: routes and a host are set up, then
\* one call of RebuildRouter() runs step by step while the workers dispatch.
ReloadNext ==
    \/ \E rs \in RouteLists : nops = 0 /\ nreq = 0 /\ RebuildRouter(<<rs>>)
    \/ nreq = 0 /\ rbpc = "idle" /\ Host(DotA)
    \/ RebuildBegin(<<>>)
    \/ RebuildStep
    \/ RebuildEnd
    \/ \E p \in Procs : Dispatch(p)

SpecReload == Init /\ [][ReloadNext]_vars

\* Concurrent dispatches on an empty chain cache: middleware and hosts are
\* set up, then the workers dispatch, each building its chain step by step.
ChainNext ==
    \/ \E args \in MwArgs : nreq = 0 /\ Use(args)
    \/ \E name \in HostNames : nreq = 0 /\ Host(name)
    \/ \E p \in Procs : DispatchSteps(p)

SpecChain == Init /\ [][ChainNext]_vars

\* Errors: the error handler and the debug mode are set up, then requests
\* whose chains return every outcome are dispatched, one after the other
\* (the error path of a request shares nothing with that of another).
DispatchAll(p) ==
    \/ \E h \in ReqHosts : Get(p, h)
    \/ Reset(p)
    \/ Find(p)
    \/ Chain(p)
    \/ \E out \in AllOutcomes : Handle(p, out)
    \/ Put(p)

ErrorNext ==
    \/ \E h \in {"default", "custom"} : nreq = 0 /\ SetHTTPErrorHandler(h)
    \/ \E on \in BOOLEAN : nreq = 0 /\ SetDebug(on)
    \/ DispatchAll(1)

SpecError == Init /\ [][ErrorNext]_vars

\* ------------------------------------------------------------------ URI
\* strings.Replace(s, old, new, -1), old not empty
RECURSIVE Replace(_, _, _)
Replace(s, old, new) ==
    IF Len(s) < Len(old) THEN s
    ELSE IF HasPrefix(s, old)
         THEN new \o Replace(SubSeq(s, Len(old) + 1, Len(s)), old, new)
         ELSE <<s[1]>> \o Replace(Tail(s), old, new)

\* strings.TrimSuffix(s, suffix)
TrimSuffix(s, suffix) ==
    IF HasSuffix(s, suffix) THEN SubSeq(s, 1, Len(s) - Len(suffix)) ELSE s

\* url.QueryEscape on the characters of the model: letters and digits stay,
\* '/' and ':' become their percent codes.
EscapeChar(c) ==
    IF c = "/" THEN <<"%", "2", "F">>
    ELSE IF c = ":" THEN <<"%", "3", "A">>
    ELSE <<c>>

RECURSIVE QueryEscape(_)
QueryEscape(s) ==
    IF s = <<>> THEN <<>> ELSE EscapeChar(Head(s)) \o QueryEscape(Tail(s))

\* The byte of a character, which sort.Strings compares.
Byte(c) ==
    IF c = "/" THEN 47 ELSE IF c = "4" THEN 52 ELSE IF c = "7" THEN 55
    ELSE IF c = ":" THEN 58 ELSE IF c = "a" THEN 97 ELSE IF c = "b" THEN 98
    ELSE IF c = "c" THEN 99 ELSE IF c = "k" THEN 107 ELSE 117

RECURSIVE StringLess(_, _)
StringLess(x, y) ==
    IF y = <<>> THEN FALSE
    ELSE IF x = <<>> THEN TRUE
    ELSE IF Byte(Head(x)) # Byte(Head(y)) THEN Byte(Head(x)) < Byte(Head(y))
    ELSE StringLess(Tail(x), Tail(y))

\* sort.Strings(keys), keys being the keys of a map
RECURSIVE SortStrings(_)
SortStrings(S) ==
    IF S = {} THEN <<>>
    ELSE LET m == CHOOSE x \in S : \A y \in S \ {x} : StringLess(x, y)
         IN <<m>> \o SortStrings(S \ {m})

\* r.Params, which the router build derives from the path pattern: the names
\* that follow a ':' up to the next '/', in order.
RECURSIVE NameEnd(_, _)
NameEnd(path, i) ==
    IF i > Len(path) \/ path[i] = "/" THEN i ELSE NameEnd(path, i + 1)

RECURSIVE ParamsFrom(_, _)
ParamsFrom(path, i) ==
    IF i > Len(path) THEN <<>>
    ELSE IF path[i] = ":"
         THEN <<SubSeq(path, i + 1, NameEnd(path, i) - 1)>>
                  \o ParamsFrom(path, NameEnd(path, i))
         ELSE ParamsFrom(path, i + 1)

ParamsOf(path) == ParamsFrom(path, 1)

\* The loop of URI over r.Params for a map[string]string, from the k-th
\* name on: the uri so far and the map, from which the names are deleted.
RECURSIVE SubstLoop(_, _, _, _)
SubstLoop(params, k, uri, val) ==
    IF k > Len(params) THEN [uri |-> uri, val |-> val]
    ELSE LET name == params[k]
             tag == <<":">> \o name
             y == name \in DOMAIN val
             v == IF y THEN val[name] ELSE <<>>
             val2 == IF y THEN [n \in DOMAIN val \ {name} |-> val[n]] ELSE val
             uri2 == Replace(uri, tag \o <<"/">>, v \o <<"/">>)
             uri3 == IF HasSuffix(uri2, tag) THEN TrimSuffix(uri2, tag) \o v
                     ELSE uri2
         IN SubstLoop(params, k + 1, uri3, val2)

\* for _, k := range keys { uri += sep + QueryEscape(k) + "=" + ... }
RECURSIVE QueryLoop(_, _, _, _)
QueryLoop(keys, val, uri, sep) ==
    IF keys = <<>> THEN uri
    ELSE QueryLoop(Tail(keys), val,
                   uri \o sep \o QueryEscape(Head(keys)) \o <<"=">>
                       \o QueryEscape(val[Head(keys)]),
                   <<"&">>)

\* Mutant: the route is the one of the last index registered under the name.
URIOfLast(name, val) ==
    IF name \in DOMAIN erouter.nroute /\ Len(erouter.nroute[name]) > 0
    THEN LET l == erouter.nroute[name]
             r == erouter.routes[l[Len(l)] + 1]
             s == SubstLoop(ParamsOf(r.Path), 1, r.Path, val)
         IN [uri |-> QueryLoop(SortStrings(DOMAIN s.val), s.val, s.uri, <<"?">>),
             val |-> s.val]
    ELSE [uri |-> <<>>, val |-> val]

\* URI(name, params) for a route name and one map[string]string: the string
\* returned and the map as the call leaves it.
URIOf(name, val) ==
    IF name \in DOMAIN erouter.nroute /\ Len(erouter.nroute[name]) > 0
    THEN LET r == erouter.routes[erouter.nroute[name][1] + 1]
             s == SubstLoop(ParamsOf(r.Path), 1, r.Path, val)
         IN [uri |-> QueryLoop(SortStrings(DOMAIN s.val), s.val, s.uri, <<"?">>),
             val |-> s.val]
    ELSE [uri |-> <<>>, val |-> val]

URI(name, val) ==
    /\ uriArg' = [name |-> name, params |-> val]
    /\ uriRes' = URIOf(name, val).uri
    /\ uriVal' = URIOf(name, val).val
    /\ UNCHANGED <<middleware, head, hosts, erouter, nextId, hostFirst, nops,
                   nreq, lastMut, findArg, findRes>>
    /\ UNCHANGED rbVars
    /\ UNCHANGED <<retired, ptable, pi>>
    /\ UNCHANGED procVars
    /\ UNCHANGED poolVars
    /\ UNCHANGED errVars
    /\ UNCHANGED pres
    /\ UNCHANGED sess

\* The keyed parameters of the calls: maps from some keys to values.
URIKeys == {<<"a">>, <<"b">>, <<"k">>, <<"c", "/">>}
URIValues == {<<"4", "2">>, <<"7", "/">>, <<":", "b">>}
URIMaps == UNION {[K -> URIValues] : K \in SUBSET URIKeys}
URINames == {"n1", "n2", "n3"}

\* A further call of URI with the name and the map of the call before it:
\* a map is passed by reference, so the call gets the map as that call
\* left it.
URIAgain ==
    /\ uriArg # NoCall
    /\ URI(uriArg.name, uriVal)

URINext ==
    \/ \E rs \in RouteLists : nops = 0 /\ uriArg = NoCall /\ RebuildRouter(<<rs>>)
    \/ \E name \in URINames, val \in URIMaps : uriArg = NoCall /\ URI(name, val)
    \/ URIAgain

SpecURI == Init /\ [][URINext]_vars

\* ------------------------------------------------- findRouter on its own
\* The names registered and the hosts looked up: every string over the
\* separator and a letter up to a length.  Host("") is not called.
FindChars == {".", "a"}
FindNames == SeqsUpTo(FindChars, MaxFindName) \ {<<>>}
FindHosts == SeqsUpTo(FindChars, MaxFindHost)

\* router, exist := e.findRouter(host)
FindCall(host) ==
    /\ findArg' = host
    /\ findRes' \in findRouter(host)
    /\ UNCHANGED <<middleware, head, hosts, erouter, nextId, hostFirst, nops,
                   nreq, lastMut, uriArg, uriVal, uriRes>>
    /\ UNCHANGED rbVars
    /\ UNCHANGED <<retired, ptable, pi>>
    /\ UNCHANGED procVars
    /\ UNCHANGED poolVars
    /\ UNCHANGED errVars
    /\ UNCHANGED pres
    /\ UNCHANGED sess

FindNext ==
    \/ \E name \in FindNames :
          /\ findRes = NoFound
          /\ Cardinality(DOMAIN hosts) < MaxFindRegs
          /\ Host(name)
    \/ \E host \in FindHosts : FindCall(host)

SpecFind == Init /\ [][FindNext]_vars

\* --------------------------------------------------- session middleware
\* One run of the handler that Sessions(options, store) wraps around h
\* (src/middleware/session/middleware.go).  An error value is carried with
\* the pieces of its message: obj is the error, text its Error().
everythingButSess ==
    <<middleware, head, hosts, erouter, nextId, pool, ctxs, pc, pctx, preq,
      pfound, phandler, pbuilt, ptag, ran, seen, perr, nreq, nops, lastMut,
      hostFirst, findArg, findRes, uriArg, uriVal, uriRes, retired, ptable,
      pi, rbpc, rbroutes, rbk, rbBefore, rbAfter, errh, debug, pres>>

SaveErrs ==
    {[kind |-> "plain", code |-> 0, message |-> "", text |-> "store down"],
     [kind |-> "plain", code |-> 0, message |-> "", text |-> "too large"]}

Val(e) == [obj |-> e, text |-> IF e = NoErr THEN <<>> ELSE <<e.text>>]

\* errors.New(text): an error of its own with that message
NewError(text) ==
    [obj |-> [kind |-> "new", code |-> 0, message |-> "", text |-> ""],
     text |-> text]

Event(ev, by, res) == [ev |-> ev, by |-> by, res |-> res]

\* s := newSession(c); c.SetSessioner(s); s.SetPreSaveHook(...);
\* c.AddPreResponseHook(s.Save)
SessionsBegin(withOptions) ==
    /\ sess.pc = "idle"
    /\ sess' = [sess EXCEPT !.pc = "handle", !.cloned = withOptions,
                            !.hooks = Append(@, "Save")]
    /\ UNCHANGED everythingButSess

\* The pre-response hooks of the context run when the handler writes the
\* response: every hook registered is called, here s.Save, with result res.
RunPreResponseHooks(hooks, res) ==
    [i \in 1..Len(hooks) |-> Event("save", "hook", res)]

\* Mutant: the middleware returns the handler's error at once.
SessionsHandleReturnsOnError(herr, wrote, hookres) ==
    /\ sess.pc = "handle"
    /\ sess' = [sess EXCEPT
                  !.pc = IF herr # NoErr THEN "done" ELSE "save",
                  !.err = Val(herr),
                  !.ret = IF herr # NoErr THEN Val(herr) ELSE @,
                  !.events = @ \o <<Event("handle", "middleware", NoErr)>>
                               \o (IF wrote
                                   THEN RunPreResponseHooks(sess.hooks, hookres)
                                   ELSE <<>>)
                               \o <<Event("return", "handler", herr)>>]
    /\ UNCHANGED everythingButSess

\* err := h.Handle(c): the handler runs, writes the response or not, and
\* returns herr.
SessionsHandle(herr, wrote, hookres) ==
    /\ sess.pc = "handle"
    /\ sess' = [sess EXCEPT
                  !.pc = "save",
                  !.err = Val(herr),
                  !.events = @ \o <<Event("handle", "middleware", NoErr)>>
                               \o (IF wrote
                                   THEN RunPreResponseHooks(sess.hooks, hookres)
                                   ELSE <<>>)
                               \o <<Event("return", "handler", herr)>>]
    /\ UNCHANGED everythingButSess

\* e := s.Save()
SessionsSave(serr) ==
    /\ sess.pc = "save"
    /\ sess' = [sess EXCEPT !.pc = "merge", !.e = Val(serr),
                            !.events = Append(@, Event("save", "middleware", serr))]
    /\ UNCHANGED everythingButSess

\* Mutant: the save error replaces the handler's error.
SessionMergeDropsFirst(err, e) ==
    IF e.obj # NoErr THEN e ELSE err

\* if e != nil { if err != nil { err = errors.New("Multiple errors:\n1. " +
\* err.Error() + "\n2. " + e.Error()) } else { err = e } }
SessionMerge(err, e) ==
    IF e.obj # NoErr
    THEN IF err.obj # NoErr
         THEN NewError(<<"Multiple errors:\n1. ">> \o err.text
                           \o <<"\n2. ">> \o e.text)
         ELSE e
    ELSE err

\* if e := s.Save(); e != nil { ...; c.Logger().Error(err) }; return err
SessionsReturn ==
    /\ sess.pc = "merge"
    /\ sess' = [sess EXCEPT
                  !.pc = "done",
                  !.ret = SessionMerge(sess.err, sess.e),
                  !.logs = IF sess.e.obj # NoErr
                           THEN Append(@, SessionMerge(sess.err, sess.e))
                           ELSE @]
    /\ UNCHANGED everythingButSess

SessionNext ==
    \/ \E withOptions \in BOOLEAN : SessionsBegin(withOptions)
    \/ \E herr \in Errs \cup {NoErr}, wrote \in BOOLEAN,
          hookres \in SaveErrs \cup {NoErr} : SessionsHandle(herr, wrote, hookres)
    \/ \E serr \in SaveErrs \cup {NoErr} : SessionsSave(serr)
    \/ SessionsReturn

SpecSession == Init /\ [][SessionNext]_vars

\* -------------------------------------------------------------- claims
\* The worker has executed its chain and has not yet released its context.
Executed(p) == pc[p] = "put"

\* C1: after Use(mw), the next dispatch executes mw, whatever happened
\* before, a dispatch that built and cached the chain included.
C1_NextDispatchRunsUsed ==
    \A p \in Procs :
        (Executed(p) /\ ptag[p].op = "Use")
            => Range(ptag[p].mw) \subseteq Range(ran[p].mws)

\* C2: after Clear() with no arguments, the next dispatch that resolves to
\* the default router executes none of the middleware registered before the
\* Clear, also when a chain holding them was cached before the Clear.
C2_ClearThenDefaultRunsNone ==
    \A p \in Procs :
        (Executed(p) /\ ptag[p].op = "Clear" /\ ptag[p].mw = <<>>
                     /\ ~pfound[p].exist)
            => Range(ran[p].mws) \cap Range(ptag[p].prev) = {}

\* C2, its case: the default chain cached before the Clear held middleware.
C2_Witness ==
    \E p \in Procs :
        /\ Executed(p) /\ ptag[p].op = "Clear" /\ ptag[p].mw = <<>>
        /\ ~pfound[p].exist
        /\ \E c \in ptag[p].cached : c[1] = <<>> /\ c[2] # <<>>

\* C3: after Clear() with no arguments, the next dispatch that resolves to a
\* host's router executes none of the middleware registered before the
\* Clear, also when that host's chain was cached before the Clear.
C3_ClearThenHostRunsNone ==
    \A p \in Procs :
        (Executed(p) /\ ptag[p].op = "Clear" /\ ptag[p].mw = <<>>
                     /\ pfound[p].exist)
            => Range(ran[p].mws) \cap Range(ptag[p].prev) = {}

\* C4: a chain that a dispatch has just built executes the global middleware
\* in list order and then the handler of the router it resolved; after
\* Use(args) that is the former list followed by args, after Pre(args) it is
\* args, in their order, followed by the former list.
C4_FreshChainOrder ==
    \A p \in Procs :
        (Executed(p) /\ pbuilt[p]) =>
            /\ ran[p].mws = middleware
            /\ ran[p].router = pfound[p].id
            /\ ptag[p].op = "Use" => ran[p].mws = ptag[p].prev \o ptag[p].mw
            /\ ptag[p].op = "Pre" => ran[p].mws = ptag[p].mw \o ptag[p].prev

\* C4, its case: Use(mw1), then Use(mw2), then a dispatch that builds.
C4_Witness ==
    \E p \in Procs :
        /\ Executed(p) /\ pbuilt[p] /\ ptag[p].op = "Use"
        /\ Len(ptag[p].prev) = 1 /\ Len(ptag[p].mw) = 1
        /\ ptag[p].prev # ptag[p].mw

\* C5: a worker that holds a context eventually returns it to the pool,
\* whether its chain failed or not.
C5_ContextReturned ==
    \A p \in Procs : \A c \in 1..MaxCtx :
        (pctx[p] = c) ~> (c \in pool)

\* C5, its case: a dispatch whose chain failed has returned, its context is
\* in the pool.
C5_Witness ==
    \E p \in Procs :
        /\ pc[p] = "idle" /\ perr[p] = "err"
        /\ pool # {} /\ \A q \in Procs : pctx[q] = 0

\* C6: no context is held by two workers or held while it is in the pool,
\* and when the chain runs the context holds the worker's own request and
\* nothing a handler of an earlier request left in it.
C6_PoolSafety ==
    /\ \A p, q \in Procs : (p # q /\ pctx[p] # 0) => pctx[p] # pctx[q]
    /\ \A p \in Procs : pctx[p] # 0 => pctx[p] \notin pool
    /\ \A p \in Procs :
           pc[p] = "handle" => ctxs[pctx[p]] = [req |-> preq[p].id, data |-> 0]
    /\ \A p \in Procs : Executed(p) => seen[p] = 0

\* C6, its case: a chain has run on a context that served an earlier request.
C6_Witness ==
    \E p \in Procs :
        /\ Executed(p) /\ preq[p].id > 1 /\ Len(ctxs) = 1
        /\ ctxs[pctx[p]] = [req |-> preq[p].id, data |-> preq[p].id]

\* C7: for every name given to Host, the registry holds the Host that the
\* first call returned, and that Host has a Router and a Group.
C7_HostLookupOrCreate ==
    \A n \in DOMAIN hostFirst :
        /\ n \in DOMAIN hosts
        /\ hosts[n].id = hostFirst[n]
        /\ hosts[n].group
        /\ hosts[n].Router # NoRouter

\* C8: host resolution.  A registered name equal to the host is chosen;
\* otherwise the routers findRouter can return are those of the registered
\* names that the host extends: a name with a leading '.' preceded by at
\* least one character, or a name with a trailing '.' followed by at least
\* one character; when there is none, the default router is returned, flagged
\* as not host-specific.
Extends(h, host) ==
    \/ /\ h[1] = "."
       /\ \E k \in 1..(Len(host) - 1) : host = SubSeq(host, 1, k) \o h
    \/ /\ h[Len(h)] = "."
       /\ \E k \in 2..Len(host) : host = h \o SubSeq(host, k, Len(host))

Resolution(host) ==
    IF host \in DOMAIN routers
    THEN {[ref |-> host, id |-> hosts[host].Router.id, exist |-> TRUE]}
    ELSE LET ms == {h \in DOMAIN routers : Extends(h, host)}
         IN IF ms = {}
            THEN {[ref |-> <<>>, id |-> erouter.id, exist |-> FALSE]}
            ELSE {[ref |-> h, id |-> hosts[h].Router.id, exist |-> TRUE] : h \in ms}

C8_HostResolution ==
    /\ \A host \in FindHosts : findRouter(host) = Resolution(host)
    /\ findRes # NoFound => findRes \in Resolution(findArg)

\* C8, its case: a host with no entry of its own resolved to the router of a
\* name with a leading '.' that it extends by one character, while a name
\* with a trailing '.' is registered too.
C8_Witness ==
    /\ findRes.exist
    /\ findArg \notin DOMAIN routers
    /\ findRes.ref[1] = "." /\ Len(findArg) = Len(findRes.ref) + 1
    /\ \E h \in DOMAIN routers : h[Len(h)] = "." /\ h[1] # "."

\* C10: after RebuildRouter the name map holds, for every name, exactly the
\* indices of the routes of that name, each once, in ascending order, and
\* AppendRouter keeps a name map that is exact so; in every state every index
\* of the name map is a position of the route sequence.
IndicesOf(name) ==
    {i \in 0..(Len(erouter.routes) - 1) : erouter.routes[i + 1].Name = name}

NameMapExact ==
    /\ DOMAIN erouter.nroute = {erouter.routes[k].Name : k \in 1..Len(erouter.routes)}
    /\ \A name \in DOMAIN erouter.nroute :
         LET l == erouter.nroute[name]
         IN /\ Range(l) = IndicesOf(name)
            /\ \A j, k \in 1..Len(l) : j < k => l[j] < l[k]

NameMapValid ==
    \A name \in DOMAIN erouter.nroute :
        \A j \in 1..Len(erouter.nroute[name]) :
            /\ erouter.nroute[name][j] >= 0
            /\ erouter.nroute[name][j] < Len(erouter.routes)

RECURSIVE Segments(_, _)
Segments(path, cur) ==
    IF path = <<>> THEN <<cur>>
    ELSE IF Head(path) = "/" THEN <<cur>> \o Segments(Tail(path), <<>>)
    ELSE Segments(Tail(path), Append(cur, Head(path)))

RECURSIVE JoinSubst(_, _)
JoinSubst(segs, val) ==
    IF segs = <<>> THEN <<>>
    ELSE LET seg == Head(segs)
             out == IF seg # <<>> /\ seg[1] = ":" THEN val[Tail(seg)] ELSE seg
         IN IF Len(segs) = 1 THEN out
            ELSE out \o <<"/">> \o JoinSubst(Tail(segs), val)

ExpectedURI(path, val) ==
    LET rest == DOMAIN val \ Range(ParamsOf(path))
    IN QueryLoop(SortStrings(rest), val, JoinSubst(Segments(path, <<>>), val),
                 <<"?">>)

URICase ==
    /\ uriArg # NoCall
    /\ uriArg.name \in DOMAIN erouter.nroute
    /\ Range(ParamsOf(erouter.routes[erouter.nroute[uriArg.name][1] + 1].Path))
           \subseteq DOMAIN uriArg.params

C9_URISubstitutes ==
    URICase =>
        uriRes = ExpectedURI(erouter.routes[erouter.nroute[uriArg.name][1] + 1].Path,
                             uriArg.params)

\* The same for calls none of whose values holds a ':'.
URIPlainValues ==
    (URICase /\ \A k \in DOMAIN uriArg.params : ":" \notin Range(uriArg.params[k]))
        => C9_URISubstitutes

\* C11: when several routes share a name, URI builds its result from the
\* path of the one that comes first in the route sequence and from no other;
\* when no route carries the name, URI returns the empty string.
Carriers(name) ==
    {k \in 1..Len(erouter.routes) : erouter.routes[k].Name = name}

FirstCarrier(name) ==
    CHOOSE k \in Carriers(name) : \A j \in Carriers(name) : k <= j

FromPath(path, val) ==
    LET s == SubstLoop(ParamsOf(path), 1, path, val)
    IN QueryLoop(SortStrings(DOMAIN s.val), s.val, s.uri, <<"?">>)

C11_URIFirstRoute ==
    uriArg # NoCall =>
        IF Carriers(uriArg.name) = {}
        THEN uriRes = <<>>
        ELSE uriRes = FromPath(erouter.routes[FirstCarrier(uriArg.name)].Path,
                               uriArg.params)

\* C11, its case: two routes of the name, whose paths give different results
\* for the parameters of the call.
C11_Witness ==
    /\ uriArg # NoCall
    /\ \E j, k \in Carriers(uriArg.name) :
          /\ j < k
          /\ FromPath(erouter.routes[j].Path, uriArg.params)
                 # FromPath(erouter.routes[k].Path, uriArg.params)
    /\ uriRes # <<>>

\* C11, its other case: a call with a name that no route carries.
C11_WitnessNoRoute ==
    /\ uriArg # NoCall /\ Carriers(uriArg.name) = {} /\ Len(erouter.routes) > 0
    /\ uriRes = <<>>

\* C12: Clear(m1..mk) with arguments leaves the list it found without the
\* entries that are one of m1..mk, every occurrence of them, the other
\* entries in their order; an argument that is not in the list changes
\* nothing.
Without(mw, dms) == SelectSeq(mw, LAMBDA m : m \notin dms)

C12_ClearRemovesNamed ==
    (lastMut.op = "Clear" /\ lastMut.mw # <<>>)
        => middleware = Without(lastMut.prev, Range(lastMut.mw))

\* The same for a list in which no entry occurs twice.
ClearOfDistinct ==
    (lastMut.op = "Clear" /\ lastMut.mw # <<>>
         /\ Cardinality(Range(lastMut.prev)) = Len(lastMut.prev))
        => middleware = Without(lastMut.prev, Range(lastMut.mw))

\* C13: while RebuildRouter runs, and after it, the table in which a dispatch
\* resolved its request is a complete one: a table as it was when the rebuild
\* began, or a table as the rebuild leaves it.
C13_NoTornTable ==
    \A p \in Procs :
        (Executed(p) /\ rbpc # "idle") => ptable[p] \in rbBefore \cup rbAfter

\* C14: every dispatch executes a chain that holds all the global middleware
\* registered, also when several dispatches find the cache empty at once.
C14_ChainComplete ==
    \A p \in Procs :
        Executed(p) => Range(middleware) \subseteq Range(ran[p].mws)

\* C15: when the chain returned an error, the error handler configured was
\* called once, with that error; when the chain returned nil, no error
\* handler was called.
C15_ErrorDelegatedOnce ==
    \A p \in Procs :
        Executed(p) =>
            pres[p].calls = IF pres[p].out.err = NoErr THEN <<>>
                            ELSE <<[handler |-> errh, err |-> pres[p].out.err]>>

\* C15, its case: a chain returned a *HTTPError while a handler of the
\* application was configured, and that handler was called.
C15_Witness ==
    \E p \in Procs :
        /\ Executed(p) /\ errh = "custom" /\ pres[p].out.err.kind = "http"
        /\ Len(pres[p].calls) = 1

\* C16: the default error handler writes nothing to a response that the
\* chain committed and logs the error; to a response not committed it
\* writes once, with no body when the method is HEAD.
C16_CommittedNotWritten ==
    \A p \in Procs :
        (Executed(p) /\ pres[p].out.err # NoErr /\ errh = "default") =>
            /\ pres[p].logs = <<pres[p].out.err>>
            /\ IF pres[p].out.committed
               THEN pres[p].writes = <<>>
               ELSE /\ Len(pres[p].writes) = 1
                    /\ pres[p].out.method = "HEAD" => pres[p].writes[1].body = "none"

\* C16, its case: the chain committed the response and returned an error.
C16_Witness ==
    \E p \in Procs :
        /\ Executed(p) /\ errh = "default" /\ pres[p].out.err # NoErr
        /\ pres[p].out.committed /\ pres[p].out.method = "HEAD"
        /\ Len(pres[p].logs) = 1

\* C17: when the middleware has returned, it has called Save once itself,
\* after the wrapped handler returned, whatever the handler returned.
MiddlewareSaves ==
    {i \in 1..Len(sess.events) :
        sess.events[i].ev = "save" /\ sess.events[i].by = "middleware"}

HandlerReturns ==
    {i \in 1..Len(sess.events) : sess.events[i].ev = "return"}

C17_SaveAfterHandler ==
    sess.pc = "done" =>
        /\ Cardinality(MiddlewareSaves) = 1
        /\ Cardinality(HandlerReturns) = 1
        /\ \A i \in MiddlewareSaves : \A j \in HandlerReturns : j < i

\* C17, its case: the handler returned an error and the middleware returned.
C17_Witness ==
    /\ sess.pc = "done" /\ sess.err.obj # NoErr
    /\ sess.events[Len(sess.events)] = Event("save", "middleware", NoErr)

\* C18: the middleware returns nil only when the handler and the save both
\* succeeded, the handler's error when only the handler failed, the save
\* error when only the save failed, and when both failed one new error
\* whose message holds both messages after the markers "1." and "2."; an
\* error of the save is logged.
C18_NoErrorDropped ==
    sess.pc = "done" =>
        LET h == sess.err
            e == sess.e
        IN /\ (h.obj = NoErr /\ e.obj = NoErr) <=> (sess.ret.obj = NoErr)
           /\ (h.obj # NoErr /\ e.obj = NoErr) => sess.ret = h
           /\ (h.obj = NoErr /\ e.obj # NoErr) => sess.ret = e
           /\ (h.obj # NoErr /\ e.obj # NoErr) =>
                 /\ sess.ret.obj \notin {h.obj, e.obj, NoErr}
                 /\ \E i, j, k, l \in 1..Len(sess.ret.text) :
                       /\ i < j /\ j < k /\ k < l
                       /\ sess.ret.text[i] = "Multiple errors:\n1. "
                       /\ <<sess.ret.text[j]>> = h.text
                       /\ sess.ret.text[k] = "\n2. "
                       /\ <<sess.ret.text[l]>> = e.text
           /\ (e.obj # NoErr) <=> (Len(sess.logs) = 1)
           /\ (e.obj # NoErr) => e.text[1] \in Range(sess.logs[1].text)

\* C18, its case: the handler and the save both failed.
C18_Witness ==
    /\ sess.pc = "done" /\ sess.err.obj # NoErr /\ sess.e.obj # NoErr
    /\ Len(sess.ret.text) = 4

\* C19: a call of RebuildRouter(routes) (the step that replaces e.router)
\* leaves the default router and the router of every host with the routes
\* of routes that resolve to them and no other route (stated for the routes
\* a router holds as a set; the claim adds that each is held once).
RoutesIn(tree) == {tree[k].route : k \in 1..Len(tree)}

BoundTo(ref) ==
    {r \in Range(erouter.routes) : \E f \in findRouter(r.Host) : f.ref = ref}

OnlyRoutesDefault == RoutesIn(erouter.tree) = BoundTo(<<>>)

OnlyRoutesHosts ==
    \A n \in DOMAIN routers : RoutesIn(routers[n].tree) = BoundTo(n)

C19_RebuildLeavesOnlyRoutes ==
    [][erouter'.id # erouter.id => (OnlyRoutesDefault /\ OnlyRoutesHosts)']_vars

\* The same for the default router alone.
RebuildDefaultOnlyRoutes ==
    [][erouter'.id # erouter.id => OnlyRoutesDefault']_vars

\* C20: the keys of the host registry are the names that were given to
\* Host, and every entry holds a Router and a Group.
C20_RegistryKeysFromHost ==
    /\ DOMAIN hosts = DOMAIN hostFirst
    /\ \A n \in DOMAIN hosts : hosts[n].group /\ hosts[n].Router # NoRouter

\* C21: with the registered hosts unchanged, a call of findRouter for the
\* host of the call before it returns the router that call returned, also
\* when the host has no entry of its own and several registered names
\* match it.
C21_FindRouterDeterministic ==
    [][(findRes # NoFound /\ routers' = routers /\ findArg' = findArg)
           => findRes' = findRes]_vars

\* The same for the hosts that have an entry of their own or that at most
\* one registered name matches.
SeveralMatch(host) ==
    /\ host \notin DOMAIN routers
    /\ Cardinality({h \in DOMAIN routers : MatchesPattern(h, host)}) > 1

FindRouterOneMatch ==
    [][(findRes # NoFound /\ routers' = routers /\ findArg' = findArg
            /\ ~SeveralMatch(findArg))
           => findRes' = findRes]_vars

\* Two names with a leading '.' match the host that was looked up.
FindSeveralLeadingDot ==
    /\ findRes # NoFound
    /\ findArg \notin DOMAIN routers
    /\ \E g, h \in DOMAIN routers :
          /\ g # h /\ g[1] = "." /\ h[1] = "."
          /\ HasSuffix(findArg, g) /\ HasSuffix(findArg, h)
          /\ Len(findArg) > Len(g) /\ Len(findArg) > Len(h)

\* C22: the map passed to URI holds after the call the keys and values it
\* held before it.
C22_URILeavesParams ==
    uriArg # NoCall => uriVal = uriArg.params

\* C22, the consequence it draws: a call of URI with the name and the map
\* of the call before it returns the string that call returned.
URITwiceSame ==
    [][(uriArg # NoCall /\ uriArg'.name = uriArg.name
            /\ uriArg'.params = uriVal)
           => uriRes' = uriRes]_vars

\* The part of C22 about the router: a call of URI leaves it as it was.
URILeavesRouter ==
    [][uriArg' # uriArg => (erouter' = erouter /\ hosts' = hosts)]_vars

\* The keys URI removes are the parameters of the route it used, and every
\* other key keeps its value.
URIRemovesRouteParams ==
    uriArg # NoCall =>
        LET used == IF Carriers(uriArg.name) = {} THEN {}
                    ELSE Range(ParamsOf(erouter.routes[FirstCarrier(uriArg.name)].Path))
        IN /\ DOMAIN uriVal = DOMAIN uriArg.params \ used
           /\ \A k \in DOMAIN uriVal : uriVal[k] = uriArg.params[k]

====
